---------------------------- MODULE Spec2Model ----------------------------
(***************************************************************************)
(* EEGPlatform backend: the per-session undo/redo snapshot store           *)
(* (services/session_manager.py, driven by the mutating operations of      *)
(* services/eeg_service.py) and the batch job orchestrator                 *)
(* (services/batch_processing_service.py) running on one asyncio loop.     *)
(*                                                                         *)
(* Two specifications share the module: SessionSpec moves only the         *)
(* session variables, BatchSpec moves only the batch variables.            *)
(***************************************************************************)
EXTENDS Integers, Sequences, FiniteSets, TLC

(***************************************************************************)
(* Bounds of the exploration                                               *)
(***************************************************************************)
\* longest processing history explored (the "load" record plus the operations)
MaxHist == 12
\* operations other than apply_filter are enumerated on histories of at most
\* MaxVariety records, and at most MaxSpecial of them per session
MaxVariety == 1
MaxSpecial == 1
\* longest file list of a batch request
MaxFiles == 2
\* number of start_job calls explored for the job
MaxStarts == 2
\* number of progress subscribers
MaxSubscribers == 1
\* most batches of epochs one time-frequency computation is split into
MaxBatches == 2
\* number of TFRJobManager.cancel_job calls explored for the job
MaxCancels == 2
\* most callbacks registered on a job when _notify_progress is called
MaxCallbacks == 3
\* number of session identities in the registry
\* most snapshots kept on the two stacks of the object model together
MaxSnapshots == 2
\* most in-place changes one object of the object model undergoes
MaxEdits == 2
MaxSessions == 2

(***************************************************************************)
(* Program constants                                                       *)
(***************************************************************************)
MAX_UNDO_STACK == 10
\* SessionManager.SESSION_TIMEOUT, in hours
SESSION_TIMEOUT == 2

\* channel names and montage names offered to set_bad_channel / set_montage
Channels == {"Fz"}
Montages == {"standard_1020"}

(***************************************************************************)
(* State                                                                   *)
(***************************************************************************)
VARIABLES
    \* ---- EEGSession ----
    raw,                 \* session.raw
    epochs,              \* session.epochs
    processing_history,  \* session.processing_history
    undo_stack,          \* session._undo_stack
    redo_stack,          \* session._redo_stack
    last,                \* observer: the last call on the session and its outcome
    special,             \* number of operations other than apply_filter so far
    trail,               \* observer: the current run of operations / undos / redos
    \* ---- BatchProcessingService, one job identity ----
    job,                 \* self._jobs[job_id]: the BatchJob and its BatchJobStatus
    tasks,               \* the asyncio tasks created by start_job, in creation order
    pc,                  \* position of the _process_job coroutine that holds the loop
    lock,                \* self._lock: "free" or the coroutine holding it
    cancel_ret,          \* value returned by the last cancel_job call
    events,              \* per subscriber: the last status snapshot delivered to it,
                         \* and whether one was delivered after a cancellation
    ran,                 \* observer: tasks whose _process_job body has executed
    at_cancel,           \* observer: the file results when cancel_job returned true
    \* ---- TFRJobManager, one job identity ----
    tfr,                 \* self._jobs[job_id]: the TFRJob
    worker,              \* position of run_morlet_job in its threadpool thread
    canceller,           \* position of TFRJobManager.cancel_job on the event loop
    \* ---- one call of BatchProcessingService._notify_progress ----
    notifier,            \* the callbacks, the status passed, the loop position
    \* ---- SessionManager ----
    sessions,            \* self._sessions: per identity, whether it is registered
                         \* and the hours since its last_accessed
    now,                 \* datetime.now(), in hours, as far as the model needs it
    registry_call,       \* observer: the last call made on the SessionManager
    \* ---- one progress stream (stream_batch_progress) of the batch job ----
    sse,                 \* position of event_generator, its queue, the pending
                         \* queue.put tasks, and what it has emitted
    \* ---- the request handler that works on the session, and its readers ----
    handler,             \* position of the undo handler on the event loop, and
                         \* what the readers of the session have read
    \* ---- the objects of one EEGSession ----
    mem                  \* which object the session's raw, epochs and each stack
                         \* entry is, and what every object holds

sessionVars == <<raw, epochs, processing_history, undo_stack, redo_stack, last,
                 special, trail>>

batchVars == <<job, tasks, pc, lock, cancel_ret, events, ran, at_cancel>>

tfrVars == <<tfr, worker, canceller>>

registryVars == <<sessions, now, registry_call>>

vars == <<sessionVars, batchVars, tfrVars, notifier, registryVars, sse, handler,
          mem>>

\* the variables each specification leaves alone
notHandler == <<batchVars, tfrVars, notifier, registryVars, sse, mem>>
notSession == <<notHandler, handler>>
notBatch == <<sessionVars, tfrVars, notifier, registryVars, handler, mem>>
notBatchSessions == <<sessionVars, tfrVars, notifier, now, registry_call, handler,
                      mem>>
notTfr == <<sessionVars, batchVars, notifier, registryVars, sse, handler, mem>>
notNotify == <<sessionVars, batchVars, tfrVars, registryVars, sse, handler, mem>>
notRegistry == <<sessionVars, batchVars, tfrVars, notifier, sse, handler, mem>>
notObjects == <<sessionVars, batchVars, tfrVars, notifier, registryVars, sse,
                handler>>

\* Optional[...] values: an absent raw / epochs / history record
NoRaw    == [loaded |-> FALSE, data |-> <<>>, bads |-> {}, montage |-> "none"]
NoEpochs == [present |-> FALSE, src |-> <<>>, montage |-> "none"]
NoRecord == [operation |-> "None"]

\* the raw object read from a file by load_raw
LoadedRaw == [loaded |-> TRUE, data |-> <<>>, bads |-> {}, montage |-> "none"]

\* a history record (operation name; params and timestamp are not modelled)
Record(operation) == [operation |-> operation]

\* what a caller can observe of the session: raw, epochs, processing history
Observed == <<raw, epochs, processing_history>>

\* outcome: "ok" / "raised" for an operation, "true" / "false" for undo and redo
Call(name, outcome) == [call |-> name, outcome |-> outcome]

NoTrail == [phase |-> "none", states |-> <<>>, undos |-> 0, redos |-> 0, ok |-> TRUE]

InitSession ==
    /\ raw = NoRaw
    /\ epochs = NoEpochs
    /\ processing_history = <<>>
    /\ undo_stack = <<>>
    /\ redo_stack = <<>>
    /\ last = Call("none", "none")
    /\ special = 0
    /\ trail = NoTrail

(***************************************************************************)
(* EEGSession.save_state / add_history                                     *)
(***************************************************************************)
\* variant: the eviction drops the entry just pushed instead of the oldest one
save_state_undo_drops_newest(operation) ==
    IF raw.loaded
    THEN LET pushed == Append(undo_stack, <<raw, Record(operation), epochs>>)
         IN  IF Len(pushed) > MAX_UNDO_STACK
             THEN SubSeq(pushed, 1, Len(pushed) - 1)
             ELSE pushed
    ELSE undo_stack

\* the undo stack after save_state(operation, params)
save_state_undo(operation) ==
    IF raw.loaded
    THEN LET pushed == Append(undo_stack, <<raw, Record(operation), epochs>>)
         IN  IF Len(pushed) > MAX_UNDO_STACK THEN Tail(pushed) ELSE pushed
    ELSE undo_stack

\* variant: save_state leaves the redo stack as it is
save_state_redo_kept == redo_stack

\* the redo stack after save_state(operation, params)
save_state_redo ==
    IF raw.loaded THEN <<>> ELSE redo_stack

add_history(history, operation) == Append(history, Record(operation))


(***************************************************************************)
(* Observer of runs: N successful snapshotting operations, then undos,     *)
(* then redos.  states[i] is what was observable before the i-th operation *)
(* of the run, the last element what was observable after the run.         *)
(***************************************************************************)
TrailOp(before, after) ==
    IF trail.phase = "ops"
    THEN [trail EXCEPT !.states = Append(@, after)]
    ELSE [phase |-> "ops", states |-> <<before, after>>,
          undos |-> 0, redos |-> 0, ok |-> TRUE]

\* number of operations in the observed run
RunLength == IF trail.states = <<>> THEN 0 ELSE Len(trail.states) - 1

\* undos are observed while they are no more than the operations of the run,
\* redos while they are no more than the undos before them
TrailUndo(result) ==
    IF trail.phase \in {"ops", "undo"} /\ trail.undos < RunLength
    THEN [trail EXCEPT !.phase = "undo", !.undos = @ + 1,
                       !.ok = @ /\ (result = "true")]
    ELSE NoTrail

TrailRedo(result) ==
    IF trail.phase \in {"undo", "redo"} /\ trail.redos < trail.undos
    THEN [trail EXCEPT !.phase = "redo", !.redos = @ + 1,
                       !.ok = @ /\ (result = "true")]
    ELSE NoTrail

(***************************************************************************)
(* Mutating operations of EEGService                                       *)
(***************************************************************************)
Enumerated(operation) ==
    IF operation = "filter"
    THEN special' = special
    ELSE /\ Len(processing_history) <= MaxVariety
         /\ special < MaxSpecial
         /\ special' = special + 1

CanGrow ==
    /\ Len(processing_history) < MaxHist
    /\ Len(raw.data) < MaxHist - 1


\* raw.filter / raw.resample / raw.set_eeg_reference / ica.apply / raw.crop:
\* the opaque in-place transformation of the signal
Transform(r, operation) == [r EXCEPT !.data = Append(@, operation)]

\* save_state(operation); transform raw in place; add_history(operation)
SnapshotThenTransform(operation) ==
    /\ raw.loaded
    /\ CanGrow
    /\ Enumerated(operation)
    /\ undo_stack' = save_state_undo(operation)
    /\ redo_stack' = save_state_redo
    /\ raw' = Transform(raw, operation)
    /\ processing_history' = add_history(processing_history, operation)
    /\ trail' = TrailOp(Observed, <<raw', epochs, processing_history'>>)
    /\ last' = Call(operation, "ok")
    /\ UNCHANGED epochs

\* variant: a failed operation takes its snapshot off the undo stack again
SnapshotThenRollback(operation) ==
    /\ raw.loaded
    /\ Enumerated(operation)
    /\ redo_stack' = save_state_redo
    /\ trail' = NoTrail
    /\ last' = Call(operation, "raised")
    /\ UNCHANGED <<raw, epochs, processing_history, undo_stack>>

\* save_state(operation), then the processing call raises: nothing else changes
SnapshotThenRaise(operation) ==
    /\ raw.loaded
    /\ Enumerated(operation)
    /\ undo_stack' = save_state_undo(operation)
    /\ redo_stack' = save_state_redo
    /\ trail' = NoTrail
    /\ last' = Call(operation, "raised")
    /\ UNCHANGED <<raw, epochs, processing_history>>

load_raw ==
    /\ ~raw.loaded
    /\ raw' = LoadedRaw
    /\ processing_history' = add_history(processing_history, "load")
    /\ trail' = NoTrail
    /\ last' = Call("load", "ok")
    /\ UNCHANGED <<epochs, undo_stack, redo_stack, special>>

apply_filter == SnapshotThenTransform("filter")

apply_resample == SnapshotThenTransform("resample")

\* the loaded recording has none of the A1/M1/TP9, A2/M2/TP10 electrodes:
\* method "average" succeeds, method "a1a2" raises after save_state
apply_rereference ==
    \E method \in {"average", "a1a2"} :
        IF method = "a1a2"
        THEN SnapshotThenRaise("rereference")
        ELSE SnapshotThenTransform("rereference")

apply_ica == SnapshotThenTransform("ica")

crop_data == SnapshotThenTransform("crop")

\* mne.Epochs(raw, ...): the segmented view built from the current raw
EpochsOf(r) == [present |-> TRUE, src |-> r.data, montage |-> r.montage]

\* found = FALSE: no event of the requested ids, create_epochs raises after
\* save_state
create_epochs ==
    \E found \in BOOLEAN :
        IF found
        THEN /\ raw.loaded
             /\ CanGrow
             /\ Enumerated("epochs")
             /\ undo_stack' = save_state_undo("epochs")
             /\ redo_stack' = save_state_redo
             /\ epochs' = EpochsOf(raw)
             /\ processing_history' = add_history(processing_history, "epochs")
             /\ trail' = TrailOp(Observed, <<raw, epochs', processing_history'>>)
             /\ last' = Call("epochs", "ok")
             /\ UNCHANGED raw
        ELSE SnapshotThenRaise("epochs")

\* the redo stack after set_bad_channel / set_montage: neither calls save_state
unsaved_redo == redo_stack

set_bad_channel ==
    \E channel_name \in Channels, is_bad \in BOOLEAN :
        /\ raw.loaded
        /\ CanGrow
        /\ Enumerated("set_bad_channel")
        /\ raw' = [raw EXCEPT !.bads = IF is_bad THEN @ \cup {channel_name}
                                                 ELSE @ \ {channel_name}]
        /\ processing_history' = add_history(processing_history, "set_bad_channel")
        /\ redo_stack' = unsaved_redo
        /\ trail' = NoTrail
        /\ last' = Call("set_bad_channel", "ok")
        /\ UNCHANGED <<epochs, undo_stack>>

set_montage ==
    \E montage_name \in Montages :
        /\ raw.loaded
        /\ CanGrow
        /\ Enumerated("set_montage")
        /\ raw' = [raw EXCEPT !.montage = montage_name]
        /\ epochs' = IF epochs.present
                     THEN [epochs EXCEPT !.montage = montage_name]
                     ELSE epochs
        /\ processing_history' = add_history(processing_history, "set_montage")
        /\ redo_stack' = unsaved_redo
        /\ trail' = NoTrail
        /\ last' = Call("set_montage", "ok")
        /\ UNCHANGED undo_stack

(***************************************************************************)
(* EEGSession.undo / EEGSession.redo                                       *)
(***************************************************************************)
Last(s) == s[Len(s)]
Front(s) == SubSeq(s, 1, Len(s) - 1)

\* processing_history[-1] if processing_history else None
current_history ==
    IF processing_history # <<>> THEN Last(processing_history) ELSE NoRecord

\* the redo stack after a successful undo
undo_redo_stack ==
    IF raw.loaded
    THEN Append(redo_stack, <<raw, current_history, epochs>>)
    ELSE redo_stack

\* variant: undo leaves the processing history as it is
undo_history_kept == processing_history

\* the processing history after a successful undo
undo_history ==
    IF processing_history # <<>> THEN Front(processing_history)
    ELSE processing_history

\* variant: undo restores raw only and leaves the session's epochs in place
undo_epochs_kept(stack_item) == epochs

\* the epochs restored by undo from the popped stack item
undo_epochs(stack_item) == stack_item[3]

\* variant: a refused undo forgets what could be redone
undo_refused_clears_redo == <<>>

\* the redo stack after "if not self.undo_stack: return False"
undo_refused == redo_stack

undo ==
    IF undo_stack = <<>>
    THEN /\ last' = Call("undo", "false")
         /\ trail' = TrailUndo("false")
         /\ redo_stack' = undo_refused
         /\ UNCHANGED <<raw, epochs, processing_history, undo_stack, special>>
    ELSE /\ redo_stack' = undo_redo_stack
         /\ undo_stack' = Front(undo_stack)
         /\ epochs' = undo_epochs(Last(undo_stack))
         /\ raw' = Last(undo_stack)[1]
         /\ processing_history' = undo_history
         /\ last' = Call("undo", "true")
         /\ trail' = TrailUndo("true")
         /\ UNCHANGED special

\* the undo stack after a successful redo, before the redo item is popped
redo_undo_stack ==
    IF raw.loaded
    THEN Append(undo_stack, <<raw, current_history, epochs>>)
    ELSE undo_stack

\* variant: redo does not put the history record back
redo_history_dropped(redo_item) == processing_history

\* the processing history after a successful redo
redo_history(redo_item) ==
    IF redo_item[2] # NoRecord
    THEN Append(processing_history, redo_item[2])
    ELSE processing_history

redo ==
    IF redo_stack = <<>>
    THEN /\ last' = Call("redo", "false")
         /\ trail' = TrailRedo("false")
         /\ UNCHANGED <<raw, epochs, processing_history, undo_stack, redo_stack,
                        special>>
    ELSE /\ undo_stack' = redo_undo_stack
         /\ redo_stack' = Front(redo_stack)
         /\ epochs' = Last(redo_stack)[3]
         /\ raw' = Last(redo_stack)[1]
         /\ processing_history' = redo_history(Last(redo_stack))
         /\ last' = Call("redo", "true")
         /\ trail' = TrailRedo("true")
         /\ UNCHANGED special



(***************************************************************************)
(* The request handlers of one session and the readers of the session      *)
(*                                                                         *)
(* Every endpoint is an "async def" whose body awaits nothing, so a        *)
(* handler runs on the event loop from its first statement to its last     *)
(* before another handler starts.  run_morlet_job runs in a threadpool     *)
(* thread at the same time; of the session it reads session.epochs, once.  *)
(* EEGSession.undo is taken assignment by assignment: between              *)
(* "self.epochs = prev_epochs" and "self.raw = prev_raw" the pair is       *)
(* half restored.                                                          *)
(***************************************************************************)
NoHandler ==
    [at |-> "idle", item |-> <<>>, pair_read |-> "none", epochs_read |-> "none"]

InitHandler == handler = NoHandler

\* variant: a handler starts while another is between two statements, as it
\* would if handlers ran in threads
LoopIdle_threads == TRUE

\* the event loop is free to start a handler
LoopIdle == handler.at = "idle"

\* EEGSession.undo up to and including "self.epochs = prev_epochs"
undo_begin ==
    /\ LoopIdle
    /\ undo_stack # <<>>
    /\ redo_stack' = undo_redo_stack
    /\ undo_stack' = Front(undo_stack)
    /\ epochs' = undo_epochs(Last(undo_stack))
    /\ handler' = [handler EXCEPT !.at = "undo", !.item = Last(undo_stack)]
    /\ UNCHANGED <<raw, processing_history, last, trail, special>>

\* EEGSession.undo from "self.raw = prev_raw" to "return True"
undo_finish ==
    /\ handler.at = "undo"
    /\ raw' = handler.item[1]
    /\ processing_history' = undo_history
    /\ last' = Call("undo", "true")
    /\ trail' = TrailUndo("true")
    /\ handler' = [handler EXCEPT !.at = "idle", !.item = <<>>]
    /\ UNCHANGED <<epochs, undo_stack, redo_stack, special>>

\* a handler that reads session.raw and session.epochs; pair_read is the
\* position of the undo handler at the moment of the read
handler_read ==
    /\ LoopIdle
    /\ raw.loaded
    /\ handler' = [handler EXCEPT !.pair_read = handler.at]
    /\ UNCHANGED sessionVars

\* run_morlet_job, in its thread: epochs = session.epochs
job_read ==
    /\ raw.loaded
    /\ handler' = [handler EXCEPT !.epochs_read = handler.at]
    /\ UNCHANGED sessionVars

(***************************************************************************)
(* BatchProcessingService                                                  *)
(*                                                                         *)
(* Everything runs on one asyncio event loop.  A coroutine keeps the loop  *)
(* until it awaits something that is not ready.  _process_job awaits only  *)
(* _notify_progress, _execute_step and _export_file, coroutines that never *)
(* suspend, so once a task has started nothing else runs until it returns: *)
(* pc.task names the task that holds the loop.  cancel_job suspends at     *)
(* "await job.task" while keeping self._lock.                              *)
(***************************************************************************)
Subscribers == 1..MaxSubscribers

\* the keys of SessionManager._sessions, and the entry of a key that is absent
SessionIds == 1..MaxSessions

Unregistered == [live |-> FALSE, age |-> 0]

Terminal == {"completed", "failed", "cancelled"}

\* PreprocessingStepConfig: a step's type and its enabled flag
StepConfig(type, enabled) == [type |-> type, enabled |-> enabled]

\* the preprocessing_steps lists offered to create_job
StepLists ==
    {<<>>,
     <<StepConfig("filter", TRUE)>>,
     <<StepConfig("filter", FALSE), StepConfig("resample", TRUE)>>}

NoJob ==
    [exists |-> FALSE, steps |-> <<>>, status |-> "idle", total_files |-> 0,
     completed_files |-> 0, failed_files |-> 0, current_file |-> 0,
     current_step |-> "None", progress |-> 0, error_message |-> "None",
     results |-> <<>>, cancel_event |-> FALSE, task |-> 0,
     progress_callbacks |-> <<>>]

\* _status_to_dict(status): what a subscriber receives
Snapshot(j) ==
    [status |-> j.status, progress |-> j.progress,
     completed_files |-> j.completed_files, failed_files |-> j.failed_files,
     current_step |-> j.current_step, results |-> j.results]

NothingDelivered ==
    [any |-> FALSE, last |-> Snapshot(NoJob), late |-> FALSE,
     unsubscribed |-> "none"]

\* session is the session_id bound by load_raw in the current iteration
Idle == [task |-> 0, at |-> "none", i |-> 0, k |-> 0, session |-> 0]

NotCancelled == [returned |-> FALSE, results |-> <<>>]

\* the callback of the progress stream in job.progress_callbacks
OnProgress == 0

NoStream ==
    [at |-> "none", queue |-> <<>>, puts |-> <<>>, terminals |-> 0,
     lost |-> FALSE, blocked |-> FALSE]

InitBatch ==
    /\ job = NoJob
    /\ tasks = <<>>
    /\ pc = Idle
    /\ lock = "free"
    /\ cancel_ret = "none"
    /\ events = [s \in Subscribers |-> NothingDelivered]
    /\ ran = {}
    /\ at_cancel = NotCancelled
    /\ sse = NoStream

\* progress is a float percentage; it is kept exactly, in units of 1/Den percent
Den == IF job.total_files = 0 THEN 1 ELSE job.total_files

\* ((i + 1) / total_files) * 100 after the file at 0-based index i, i.e. after
\* the n-th file
progress_after(n) == n * 100

Full == 100 * Den


Range(q) == {q[x] : x \in DOMAIN q}

\* _notify_progress(job): every registered callback receives the status
notify_progress(j) ==
    [s \in Subscribers |->
        IF s \in Range(j.progress_callbacks)
        THEN [events[s] EXCEPT !.any = TRUE, !.last = Snapshot(j),
                               !.late = @ \/ at_cancel.returned]
        ELSE events[s]]

\* on_progress(status), called by _notify_progress when the stream is
\* subscribed: asyncio.create_task(queue.put(_status_to_dict(status)))
on_progress(j) ==
    IF OnProgress \in Range(j.progress_callbacks)
    THEN [sse EXCEPT !.puts = Append(@, Snapshot(j))]
    ELSE sse

\* no coroutine of the service holds the loop
LoopFree == pc.task = 0

create_job ==
    \E n \in 0..MaxFiles, steps \in StepLists :
        /\ LoopFree
        /\ lock = "free"
        /\ ~job.exists
        /\ job' = [NoJob EXCEPT !.exists = TRUE, !.steps = steps,
                                !.total_files = n,
                                !.results = [x \in 1..n |-> "pending"]]
        /\ UNCHANGED <<tasks, pc, lock, cancel_ret, events, sse, ran, at_cancel>>

\* the guard of start_job: the job exists and its status is not "running"
start_job_allowed == job.exists /\ job.status # "running"

start_job ==
    /\ LoopFree
    /\ lock = "free"
    /\ start_job_allowed
    /\ Len(tasks) < MaxStarts
    /\ tasks' = Append(tasks, "pending")
    /\ job' = [job EXCEPT !.task = Len(tasks) + 1]
    /\ UNCHANGED <<pc, lock, cancel_ret, events, sse, ran, at_cancel>>

\* each subscriber registers its own callback, once at a time
subscribe_progress ==
    \E s \in Subscribers :
        /\ LoopFree
        /\ job.exists
        /\ s \notin Range(job.progress_callbacks)
        /\ job' = [job EXCEPT !.progress_callbacks = Append(@, s)]
        /\ UNCHANGED <<tasks, pc, lock, cancel_ret, events, sse, ran, at_cancel>>

\* variant: unsubscribe_progress reports true and leaves the callback in place
unsubscribe_progress_kept ==
    \E s \in Subscribers :
        /\ LoopFree
        /\ job.exists /\ s \in Range(job.progress_callbacks)
        /\ events' = [events EXCEPT ![s].unsubscribed = "true"]
        /\ UNCHANGED <<job, tasks, pc, lock, cancel_ret, sse, ran, at_cancel>>

\* unsubscribe_progress(job_id, callback); events[s].unsubscribed is what the
\* last call of subscriber s returned.  The callback is in the list once, so
\* list.remove takes it out altogether.
unsubscribe_progress ==
    \E s \in Subscribers :
        /\ LoopFree
        /\ IF job.exists /\ s \in Range(job.progress_callbacks)
           THEN /\ job' = [job EXCEPT !.progress_callbacks =
                                SelectSeq(@, LAMBDA c : c # s)]
                /\ events' = [events EXCEPT ![s].unsubscribed = "true"]
           ELSE /\ events' = [events EXCEPT ![s].unsubscribed = "false"]
                /\ UNCHANGED job
        /\ UNCHANGED <<tasks, pc, lock, cancel_ret, sse, ran, at_cancel>>


\* the asyncio ready queue is first-in first-out: the oldest task that has not
\* taken its first step is the next one to get the loop
Ready == {t \in DOMAIN tasks : tasks[t] \in {"pending", "cancel_requested"}}

NextTask == CHOOSE t \in Ready : \A u \in Ready : t <= u

\* task.cancel() reached the task before its first step: CancelledError is thrown
\* into the coroutine, whose body never executes
task_cancelled ==
    /\ LoopFree
    /\ Ready # {}
    /\ tasks[NextTask] = "cancel_requested"
    /\ tasks' = [tasks EXCEPT ![NextTask] = "cancelled"]
    /\ UNCHANGED <<job, pc, lock, cancel_ret, events, sse, ran, at_cancel>>

\* _process_job: status = "running"; notify.  The task keeps the loop until it
\* returns: a stream that is waiting in wait_for is blocked meanwhile, and its
\* one-second timer may run out
process_job_start ==
    /\ LoopFree
    /\ Ready # {}
    /\ tasks[NextTask] = "pending"
    /\ tasks' = [tasks EXCEPT ![NextTask] = "running"]
    /\ job' = [job EXCEPT !.status = "running"]
    /\ events' = notify_progress(job')
    /\ sse' = [on_progress(job') EXCEPT !.blocked = (sse.at = "waiting")]
    /\ pc' = [Idle EXCEPT !.task = NextTask, !.at = "file", !.i = 1]
    /\ ran' = ran \cup {NextTask}
    /\ UNCHANGED <<lock, cancel_ret, at_cancel>>

\* variant: the failure is counted but the file's result is not recorded
file_failed_unrecorded(j, i) ==
    [j EXCEPT !.failed_files = @ + 1]

\* the status after the except branch of the per-file try: the file is failed
file_failed(j, i) ==
    [j EXCEPT !.results[i] = "failed", !.failed_files = @ + 1]

\* the status after a file has been exported: the file is a success
file_succeeded(j, i) ==
    [j EXCEPT !.results[i] = "success", !.completed_files = @ + 1]

\* head of "for i, file_path in enumerate(...)": the cancellation check, then
\* current_file / current_step = "loading"; notify
process_file_begin ==
    /\ pc.at = "file"
    /\ IF pc.i > job.total_files
       THEN /\ pc' = [pc EXCEPT !.at = "finish"]
            /\ UNCHANGED <<job, events, sse>>
       ELSE IF job.cancel_event
       THEN /\ job' = [job EXCEPT !.status = "cancelled"]
            /\ pc' = [pc EXCEPT !.at = "finish"]
            /\ UNCHANGED <<events, sse>>
       ELSE /\ job' = [job EXCEPT !.current_file = pc.i, !.current_step = "loading"]
            /\ events' = notify_progress(job')
            /\ sse' = on_progress(job')
            /\ pc' = [pc EXCEPT !.at = "load"]
    /\ UNCHANGED <<tasks, lock, cancel_ret, ran, at_cancel>>

\* eeg_service.load_raw either raises or registers a session under a new
\* session_id (session_manager.create_session); session_manager.get_session
\* then returns that session
process_load ==
    /\ pc.at = "load"
    /\ \/ \E sid \in SessionIds :
            /\ sessions' = [sessions EXCEPT ![sid] = [live |-> TRUE, age |-> 0]]
            /\ pc' = [pc EXCEPT !.at = "step", !.k = 1, !.session = sid]
            /\ UNCHANGED job
       \/ /\ job' = file_failed(job, pc.i)
          /\ pc' = [pc EXCEPT !.at = "file_end"]
          /\ UNCHANGED sessions
    /\ UNCHANGED <<tasks, lock, cancel_ret, events, sse, ran, at_cancel>>

\* one iteration of "for step in job.request.preprocessing_steps"
process_step ==
    /\ pc.at = "step"
    /\ IF pc.k > Len(job.steps)
       THEN /\ pc' = [pc EXCEPT !.at = "export"]
            /\ UNCHANGED <<job, events, sse>>
       ELSE IF ~job.steps[pc.k].enabled
       THEN /\ pc' = [pc EXCEPT !.k = @ + 1]
            /\ UNCHANGED <<job, events, sse>>
       ELSE IF job.cancel_event
       THEN /\ pc' = [pc EXCEPT !.at = "export"]
            /\ UNCHANGED <<job, events, sse>>
       ELSE LET stepping == [job EXCEPT !.current_step = job.steps[pc.k].type]
            IN  /\ events' = notify_progress(stepping)
                /\ sse' = on_progress(stepping)
                /\ \E ok \in BOOLEAN :
                     IF ok
                     THEN /\ job' = stepping
                          /\ pc' = [pc EXCEPT !.k = @ + 1]
                     ELSE /\ job' = file_failed(stepping, pc.i)
                          /\ pc' = [pc EXCEPT !.at = "file_end"]
    /\ UNCHANGED <<tasks, lock, cancel_ret, ran, at_cancel>>

\* session_manager.remove_session(session_id)
remove_session_of(sid) == [sessions EXCEPT ![sid] = Unregistered]

\* after the steps: the cancellation check, then current_step = "exporting";
\* notify; _export_file (may raise); the file's result
process_export ==
    /\ pc.at = "export"
    /\ IF job.cancel_event
       THEN /\ sessions' = remove_session_of(pc.session)
            /\ pc' = [pc EXCEPT !.at = "finish"]
            /\ UNCHANGED <<job, events, sse>>
       ELSE LET exporting == [job EXCEPT !.current_step = "exporting"]
            IN  /\ events' = notify_progress(exporting)
                /\ sse' = on_progress(exporting)
                /\ \/ /\ job' = file_succeeded(exporting, pc.i)
                      /\ sessions' = remove_session_of(pc.session)
                   \/ /\ job' = file_failed(exporting, pc.i)
                      /\ UNCHANGED sessions
                /\ pc' = [pc EXCEPT !.at = "file_end"]
    /\ UNCHANGED <<tasks, lock, cancel_ret, ran, at_cancel>>

\* progress = ((i + 1) / total_files) * 100; notify
process_file_end ==
    /\ pc.at = "file_end"
    /\ job' = [job EXCEPT !.progress = progress_after(pc.i)]
    /\ events' = notify_progress(job')
    /\ sse' = on_progress(job')
    /\ pc' = [pc EXCEPT !.at = "file", !.i = @ + 1]
    /\ UNCHANGED <<tasks, lock, cancel_ret, ran, at_cancel>>

\* variant: the job is marked completed whatever the loop left behind
finished_status_unconditional(j) ==
    [j EXCEPT !.status = "completed", !.current_file = 0,
              !.current_step = "None", !.progress = Full]

\* the status _process_job leaves behind when the loop is over
finished_status(j) ==
    IF j.status = "running"
    THEN [j EXCEPT !.status = "completed", !.current_file = 0,
                   !.current_step = "None", !.progress = Full]
    ELSE j

\* after the loop: if status == "running": completed, progress 100; notify
process_job_finish ==
    /\ pc.at = "finish"
    /\ job' = finished_status(job)
    /\ events' = IF job.status = "running" THEN notify_progress(job') ELSE events
    /\ sse' = IF job.status = "running" THEN on_progress(job') ELSE sse
    /\ tasks' = [tasks EXCEPT ![pc.task] = "done"]
    /\ pc' = Idle
    /\ UNCHANGED <<lock, cancel_ret, ran, at_cancel>>

\* variant: a task that was cancelled before it ran never counts as done
task_done_unless_cancelled(j) == tasks[j.task] = "done"

\* job.task.done()
task_done(j) == tasks[j.task] \in {"done", "cancelled"}

\* the guard of cancel_job: the job exists and is running or idle
cancellable == job.exists /\ job.status \in {"running", "idle"}

Cancelled(j) == [returned |-> TRUE, results |-> j.results]

\* cancel_job up to "await job.task", or to its end when there is no task to
\* wait for
cancel_job ==
    /\ LoopFree
    /\ lock = "free"
    /\ IF ~cancellable
       THEN /\ cancel_ret' = "false"
            /\ UNCHANGED <<job, tasks, lock, events, sse, at_cancel>>
       ELSE IF job.task # 0 /\ ~task_done(job)
       THEN /\ job' = [job EXCEPT !.cancel_event = TRUE]
            /\ tasks' = [tasks EXCEPT ![job.task] = "cancel_requested"]
            /\ lock' = "cancel_job"
            /\ UNCHANGED <<cancel_ret, events, sse, at_cancel>>
       ELSE /\ job' = [job EXCEPT !.cancel_event = TRUE, !.status = "cancelled"]
            /\ events' = notify_progress(job')
            /\ sse' = on_progress(job')
            /\ cancel_ret' = "true"
            /\ at_cancel' = Cancelled(job')
            /\ UNCHANGED <<tasks, lock>>
    /\ UNCHANGED <<pc, ran>>

\* cancel_job from the return of "await job.task" to its end
cancel_job_resume ==
    /\ LoopFree
    /\ lock = "cancel_job"
    /\ task_done(job)
    /\ job' = [job EXCEPT !.status = "cancelled"]
    /\ events' = notify_progress(job')
    /\ sse' = on_progress(job')
    /\ lock' = "free"
    /\ cancel_ret' = "true"
    /\ at_cancel' = Cancelled(job')
    /\ UNCHANGED <<tasks, pc, ran>>

(***************************************************************************)
(* stream_batch_progress: the server-sent-events stream of the job         *)
(*                                                                         *)
(* event_generator is a coroutine on the same event loop.  It runs between *)
(* the steps of the service whenever the loop is free, and waits for       *)
(* self._lock inside get_job_status while cancel_job holds it.             *)
(***************************************************************************)
\* the generator yields one "data:" event carrying the snapshot
Emit(stream, snapshot) ==
    [stream EXCEPT !.terminals =
        IF snapshot.status \in Terminal THEN @ + 1 ELSE @]

\* finally: unsubscribe_progress(job_id, on_progress); the generator is over
\* and its queue, with whatever is still to be put into it, is garbage: lost
\* says that a published snapshot was in it
Closed(stream) ==
    [stream EXCEPT !.at = "closed", !.queue = <<>>, !.puts = <<>>,
                   !.blocked = FALSE,
                   !.lost = stream.queue # <<>> \/ stream.puts # <<>>]

Unsubscribed(j) ==
    [j EXCEPT !.progress_callbacks = SelectSeq(@, LAMBDA c : c # OnProgress)]

\* the endpoint finds the job; event_generator subscribes on_progress and, if
\* self._lock is free, emits the current status at once
stream_open ==
    /\ LoopFree
    /\ job.exists
    /\ sse.at = "none"
    /\ job' = [job EXCEPT !.progress_callbacks = Append(@, OnProgress)]
    /\ sse' = IF lock = "free"
              THEN [Emit(sse, Snapshot(job)) EXCEPT !.at = "loop"]
              ELSE [sse EXCEPT !.at = "subscribed"]
    /\ UNCHANGED <<tasks, pc, lock, cancel_ret, events, ran, at_cancel>>

\* get_job_status got self._lock: the current status is emitted
stream_first ==
    /\ LoopFree
    /\ lock = "free"
    /\ sse.at = "subscribed"
    /\ sse' = [Emit(sse, Snapshot(job)) EXCEPT !.at = "loop"]
    /\ UNCHANGED batchVars

\* one of the tasks created by on_progress runs: queue.put(snapshot)
queue_put ==
    /\ LoopFree
    /\ sse.puts # <<>>
    /\ sse' = [sse EXCEPT !.queue = Append(@, Head(sse.puts)),
                          !.puts = Tail(@)]
    /\ UNCHANGED batchVars

\* queue.get() returns a snapshot: it is emitted, and a terminal one ends the
\* stream
stream_get ==
    /\ LoopFree
    /\ sse.at \in {"loop", "waiting"}
    /\ sse.queue # <<>>
    /\ LET got == Emit([sse EXCEPT !.at = "loop", !.queue = Tail(@),
                                    !.blocked = FALSE],
                       Head(sse.queue))
       IN  IF Head(sse.queue).status \in Terminal
           THEN /\ sse' = Closed(got)
                /\ job' = Unsubscribed(job)
           ELSE /\ sse' = got
                /\ UNCHANGED job
    /\ UNCHANGED <<tasks, pc, lock, cancel_ret, events, ran, at_cancel>>

\* queue.get() finds the queue empty and waits, for one second at most
stream_wait ==
    /\ LoopFree
    /\ sse.at = "loop"
    /\ sse.queue = <<>>
    /\ sse' = [sse EXCEPT !.at = "waiting"]
    /\ UNCHANGED batchVars

\* asyncio.TimeoutError: the job's status is read; a terminal status is emitted
\* and ends the stream, any other status sends the generator back to the wait.
\* The timer runs out after a second with nothing to take, or while a task kept
\* the loop: then the timer's callback is behind the put tasks in the ready
\* queue and ahead of the generator's wake-up, and wait_for (asyncio.timeout)
\* cancels the get although the queue has been filled.
stream_timeout ==
    /\ LoopFree
    /\ lock = "free"
    /\ sse.at = "waiting"
    /\ (sse.queue = <<>> /\ sse.puts = <<>>) \/ sse.blocked
    /\ IF job.status \in Terminal
       THEN /\ sse' = Closed(Emit(sse, Snapshot(job)))
            /\ job' = Unsubscribed(job)
       ELSE /\ sse' = [sse EXCEPT !.at = "loop", !.blocked = FALSE]
            /\ UNCHANGED job
    /\ UNCHANGED <<tasks, pc, lock, cancel_ret, events, ran, at_cancel>>

(***************************************************************************)
(* TFRJobManager                                                           *)
(*                                                                         *)
(* run_morlet_job is a plain function handed to BackgroundTasks, so it     *)
(* runs in a threadpool thread; cancel_job and get_job are called from     *)
(* endpoints on the event loop thread.  The two threads share the TFRJob   *)
(* without a lock: every attribute assignment is a step of its own, and    *)
(* the other thread may run between any two of them.                       *)
(***************************************************************************)
\* progress is a float in [0, 1]; it is kept in hundredths
NoTfr ==
    [exists |-> FALSE, status |-> "pending", progress |-> 0, error |-> "None",
     result |-> "None", cancelled |-> FALSE]

\* the message cancel_job and the cancellation checks of run_morlet_job attach
CancelMessage == "cancelled by user"

\* the arguments of run_morlet_job that its checks look at: whether the session
\* has epochs, whether channels were selected and occur in the epochs, whether
\* the event_id selects any epoch, fmin and fmax in Hz, the epoch length in
\* seconds and n_cycles in tenths
NoRequest ==
    [epochs |-> FALSE, channels |-> "empty", event_found |-> FALSE, fmin |-> 0,
     fmax |-> 0, epoch_len |-> 0, n_cycles |-> 0]

NotQueued == [at |-> "none", writes |-> <<>>, then |-> "none", n |-> 0, b |-> 0,
              mode |-> "data", request |-> NoRequest, n_cycles |-> 0]

NoCall == [at |-> "idle", writes |-> <<>>, ret |-> "none", calls |-> 0,
           trues |-> 0]

InitTfr ==
    /\ tfr = NoTfr
    /\ worker = NotQueued
    /\ canceller = NoCall

\* one attribute assignment on the TFRJob
Assign(j, write) == [j EXCEPT ![write[1]] = write[2]]

\* _update(status, progress, error, result): the assignments it makes, in the
\* order it makes them; an argument left None makes none ("None", -1)
update(status, progress, error, result) ==
    (IF status # "None" THEN << <<"status", status>> >> ELSE <<>>)
    \o (IF progress # -1 THEN << <<"progress", progress>> >> ELSE <<>>)
    \o (IF error # "None" THEN << <<"error", error>> >> ELSE <<>>)
    \o (IF result # "None" THEN << <<"result", result>> >> ELSE <<>>)

\* the worker is about to run the assignments of one _update call and then
\* continues at the given position
Updating(w, writes, then) ==
    [w EXCEPT !.at = "update", !.writes = writes, !.then = then]

\* except Exception as e: _update(status="error", progress=1.0, error=str(e))
\* where str(e) is the message of a failed check ("ValueError"), of range()
\* refusing a zero step ("range"), or of a failure inside the MNE or
\* matplotlib calls ("Exception")
Raised(w, e) == Updating(w, update("error", 100, e, "None"), "done")

\* if job.cancelled: _update(status="error", progress=1.0, error=...); return
CancelSeen(w) == Updating(w, update("error", 100, CancelMessage, "None"), "done")

\* start_tfr_job: create_job, then run_morlet_job is queued as a background task
start_tfr_job ==
    \E n \in 0..MaxBatches, mode \in {"data", "image"},
       request \in [epochs : BOOLEAN, channels : {"empty", "absent", "present"},
                    event_found : BOOLEAN, fmin : {1, 2}, fmax : {1, 2},
                    epoch_len : {0, 1}, n_cycles : {10, 30}] :
        /\ ~tfr.exists
        /\ tfr' = [NoTfr EXCEPT !.exists = TRUE]
        /\ worker' = [NotQueued EXCEPT !.at = "queued", !.n = n, !.mode = mode,
                                       !.request = request]
        /\ UNCHANGED canceller

\* run_morlet_job up to its first _update: the early return on job.cancelled
run_morlet_job ==
    /\ worker.at = "queued"
    /\ worker' = IF tfr.cancelled
                 THEN [worker EXCEPT !.at = "done"]
                 ELSE Updating(worker, update("running", 5, "None", "None"),
                               "validate")
    /\ UNCHANGED <<tfr, canceller>>

\* one assignment of the _update call in progress
update_assign ==
    /\ worker.at = "update"
    /\ tfr' = Assign(tfr, Head(worker.writes))
    /\ worker' = IF Len(worker.writes) = 1
                 THEN [worker EXCEPT !.at = worker.then, !.writes = <<>>]
                 ELSE [worker EXCEPT !.writes = Tail(@)]
    /\ UNCHANGED canceller

\* variant: the frequency range is not checked
validation_error_any_range(request) ==
    IF ~request.epochs THEN "epochs"
    ELSE IF request.channels = "empty" THEN "channels"
    ELSE IF ~request.event_found THEN "event_id"
    ELSE IF request.channels = "absent" THEN "picks"
    ELSE IF request.epoch_len <= 0 THEN "epoch_len"
    ELSE "None"

\* the checks on epochs, channels, event_id, picks, frequencies and the epoch
\* length, in the order they are made: the first that raises, or "None"
validation_error(request) ==
    IF ~request.epochs THEN "epochs"
    ELSE IF request.channels = "empty" THEN "channels"
    ELSE IF ~request.event_found THEN "event_id"
    ELSE IF request.channels = "absent" THEN "picks"
    ELSE IF request.fmax <= request.fmin THEN "fmax"
    ELSE IF request.epoch_len <= 0 THEN "epoch_len"
    ELSE "None"

\* max_cycles = max(1.0, epoch_len * min(freqs) * 0.9), in tenths, and the
\* n_cycles that is used: an oversized request is clamped to max_cycles
n_cycles_used(request) ==
    LET product == request.epoch_len * request.fmin * 9
        max_cycles == IF product > 10 THEN product ELSE 10
    IN  IF request.n_cycles > max_cycles THEN max_cycles ELSE request.n_cycles

validate ==
    /\ worker.at = "validate"
    /\ worker' =
         IF validation_error(worker.request) = "None"
         THEN Updating([worker EXCEPT !.n_cycles =
                                        n_cycles_used(worker.request)],
                       update("None", 15, "None", "None"), "batch")
         ELSE Raised(worker, "ValueError")
    /\ UNCHANGED <<tfr, canceller>>

\* progress = 0.15 + 0.6 * (total_epochs / n_epochs), after b of n batches
batch_progress(b, n) == 15 + (60 * b) \div n

\* variant: the loop over the batches does not look at job.cancelled
compute_batch_unchecked ==
    /\ worker.at = "batch"
    /\ IF worker.n = 0
       THEN worker' = Raised(worker, "range")
       ELSE IF worker.b >= worker.n
       THEN worker' = Updating(worker, update("None", 80, "None", "None"),
                               "averaged")
       ELSE \E ok \in BOOLEAN :
              worker' =
                IF ok
                THEN Updating([worker EXCEPT !.b = @ + 1],
                              update("None", batch_progress(worker.b + 1, worker.n),
                                     "None", "None"),
                              "batch")
                ELSE Raised(worker, "Exception")
    /\ UNCHANGED <<tfr, canceller>>

\* one iteration of "for start_idx in range(0, n_epochs, batch_size)"; with no
\* epochs batch_size is 0 and range() raises
compute_batch ==
    /\ worker.at = "batch"
    /\ IF worker.n = 0
       THEN worker' = Raised(worker, "range")
       ELSE IF worker.b >= worker.n
       THEN worker' = Updating(worker, update("None", 80, "None", "None"),
                               "averaged")
       ELSE IF tfr.cancelled
       THEN worker' = CancelSeen(worker)
       ELSE \E ok \in BOOLEAN :
              worker' =
                IF ok
                THEN Updating([worker EXCEPT !.b = @ + 1],
                              update("None", batch_progress(worker.b + 1, worker.n),
                                     "None", "None"),
                              "batch")
                ELSE Raised(worker, "Exception")
    /\ UNCHANGED <<tfr, canceller>>

\* after the loop: data mode completes; image mode renders
averaged ==
    /\ worker.at = "averaged"
    /\ worker' =
         IF worker.mode = "image"
         THEN Updating(worker, update("None", 85, "None", "None"), "render")
         ELSE Updating(worker, update("completed", 100, "None", "data"), "done")
    /\ UNCHANGED <<tfr, canceller>>

\* image mode, one selected channel: the cancellation check, the rendering
\* (may raise), the progress update
render_channel ==
    /\ worker.at = "render"
    /\ IF tfr.cancelled
       THEN worker' = CancelSeen(worker)
       ELSE \E ok \in BOOLEAN :
              worker' = IF ok
                        THEN Updating(worker, update("None", 98, "None", "None"),
                                      "rendered")
                        ELSE Raised(worker, "Exception")
    /\ UNCHANGED <<tfr, canceller>>

\* image mode: _update(status="completed", progress=1.0, result={...})
complete_image ==
    /\ worker.at = "rendered"
    /\ worker' = Updating(worker, update("completed", 100, "None", "image"),
                          "done")
    /\ UNCHANGED <<tfr, canceller>>

\* the guard of TFRJobManager.cancel_job
tfr_cancellable == tfr.exists /\ tfr.status \in {"pending", "running"}

\* the assignments of TFRJobManager.cancel_job, in order
cancel_writes ==
    << <<"cancelled", TRUE>>, <<"status", "error">>, <<"error", CancelMessage>>,
       <<"progress", 100>> >>

\* TFRJobManager.cancel_job: the check; an unknown or finished job returns False
tfr_cancel_job ==
    /\ canceller.at = "idle"
    /\ canceller.calls < MaxCancels
    /\ canceller' =
         IF tfr_cancellable
         THEN [canceller EXCEPT !.at = "writing", !.writes = cancel_writes,
                                !.calls = @ + 1]
         ELSE [canceller EXCEPT !.ret = "false", !.calls = @ + 1]
    /\ UNCHANGED <<tfr, worker>>

\* one assignment of the cancel_job call in progress; after the last, return True
tfr_cancel_assign ==
    /\ canceller.at = "writing"
    /\ tfr' = Assign(tfr, Head(canceller.writes))
    /\ canceller' =
         IF Len(canceller.writes) = 1
         THEN [canceller EXCEPT !.at = "idle", !.writes = <<>>, !.ret = "true",
                                !.trues = @ + 1]
         ELSE [canceller EXCEPT !.writes = Tail(@)]
    /\ UNCHANGED worker

(***************************************************************************)
(* BatchProcessingService._notify_progress, one call in detail: the loop   *)
(* over job.progress_callbacks, with callbacks that may raise              *)
(***************************************************************************)
Statuses == {"idle", "running", "completed", "failed", "cancelled"}

\* job.progress_callbacks: callbacks[i] tells whether the i-th callback raises
\* (an Exception, the class the except clause names)
CallbackLists == UNION {[1..n -> BOOLEAN] : n \in 0..MaxCallbacks}

NotCalling ==
    [at |-> "idle", callbacks |-> <<>>, status |-> "idle", i |-> 0,
     received |-> <<>>]

InitNotify == notifier = NotCalling

\* _notify_progress(job) is entered
notify_begin ==
    \E callbacks \in CallbackLists, status \in Statuses :
        /\ notifier.at = "idle"
        /\ notifier' = [at |-> "loop", callbacks |-> callbacks,
                        status |-> status, i |-> 1, received |-> <<>>]

\* variant: the exception of a callback leaves _notify_progress
callback_raised_propagates(n) == [n EXCEPT !.at = "raised"]

\* except Exception as e: print(...) - the loop goes on with the next callback
callback_raised(n) == [n EXCEPT !.i = @ + 1]

\* one iteration of "for callback in job.progress_callbacks": callback(job.status)
callback_call ==
    /\ notifier.at = "loop"
    /\ notifier.i <= Len(notifier.callbacks)
    /\ LET called == [notifier EXCEPT
                        !.received = Append(@, <<notifier.i, notifier.status>>)]
       IN  notifier' = IF notifier.callbacks[notifier.i]
                       THEN callback_raised(called)
                       ELSE [called EXCEPT !.i = @ + 1]

\* the loop is over: _notify_progress returns to its caller
notify_return ==
    /\ notifier.at = "loop"
    /\ notifier.i > Len(notifier.callbacks)
    /\ notifier' = [notifier EXCEPT !.at = "returned"]

(***************************************************************************)
(* SessionManager: the registry of sessions and their last access          *)
(*                                                                         *)
(* Time advances in steps of one hour.  Of last_accessed only the age      *)
(* now - last_accessed matters, and only up to the first value beyond      *)
(* SESSION_TIMEOUT; now itself is kept modulo 2 so that time never stops.  *)
(***************************************************************************)
NoRegistryCall == [op |-> "none", sid |-> 0]

InitRegistry ==
    /\ sessions = [sid \in SessionIds |-> Unregistered]
    /\ now = 0
    /\ registry_call = NoRegistryCall

\* now - session.last_accessed > self.SESSION_TIMEOUT
Expired(session) == session.age > SESSION_TIMEOUT

\* one hour passes
tick ==
    /\ now' = (now + 1) % 2
    /\ sessions' = [sid \in SessionIds |->
                      IF sessions[sid].live /\ ~Expired(sessions[sid])
                      THEN [sessions[sid] EXCEPT !.age = @ + 1]
                      ELSE sessions[sid]]
    /\ UNCHANGED registry_call

\* create_session(file_path): session_id = str(uuid.uuid4())[:8] is drawn at
\* random and self._sessions[session_id] is assigned without a look at the
\* registry
create_session ==
    \E sid \in SessionIds :
        /\ sessions' = [sessions EXCEPT ![sid] = [live |-> TRUE, age |-> 0]]
        /\ registry_call' = [op |-> "create_session", sid |-> sid]
        /\ UNCHANGED now

\* get_session(session_id): a registered session is touched
get_session ==
    \E sid \in SessionIds :
        /\ sessions' = IF sessions[sid].live
                       THEN [sessions EXCEPT ![sid].age = 0]
                       ELSE sessions
        /\ registry_call' = [op |-> "get_session", sid |-> sid]
        /\ UNCHANGED now

\* remove_session(session_id), on a caller's request (closing a session)
remove_session ==
    \E sid \in SessionIds :
        /\ sessions' = [sessions EXCEPT ![sid] = Unregistered]
        /\ registry_call' = [op |-> "remove_session", sid |-> sid]
        /\ UNCHANGED now

\* the registry after cleanup_expired(): the expired sessions are removed
cleanup_swept ==
    [sid \in SessionIds |->
        IF sessions[sid].live /\ Expired(sessions[sid])
        THEN Unregistered
        ELSE sessions[sid]]

\* cleanup_expired(): no code path of the application calls it, so it runs
\* only when somebody calls it explicitly
cleanup_expired ==
    /\ sessions' = cleanup_swept
    /\ registry_call' = [op |-> "cleanup_expired", sid |-> 0]
    /\ UNCHANGED now

(***************************************************************************)
(* Specifications                                                          *)
(***************************************************************************)
(***************************************************************************)
(* The objects of one EEGSession                                           *)
(*                                                                         *)
(* Raw.copy() and Epochs.copy() return a new object; every preprocessing   *)
(* operation of eeg_service changes session.raw (set_montage: session.raw  *)
(* and session.epochs) in place.  An object is a number, 0 is None, and    *)
(* mem.data[o] counts the in-place changes object o has undergone, which   *)
(* stands for what it holds.  A stack entry also records what its two      *)
(* objects held when the entry was made.                                   *)
(***************************************************************************)
\* the current pair, the pairs on the stacks and the pair being copied
Objects == 1..(2 * MaxSnapshots + 4)

NoObjects ==
    [raw |-> 0, epochs |-> 0, undo_stack |-> <<>>, redo_stack |-> <<>>,
     data |-> [o \in Objects |-> 0]]

InitObjects == mem = NoObjects

\* a stack entry: (raw object, epochs object or None), and what they held
Entry(r, e, data) ==
    [raw |-> r, epochs |-> e, raw_data |-> data[r],
     epochs_data |-> IF e = 0 THEN 0 ELSE data[e]]

\* the objects the session refers to
Referenced(m) ==
    ({m.raw, m.epochs}
        \cup {m.undo_stack[i].raw : i \in DOMAIN m.undo_stack}
        \cup {m.undo_stack[i].epochs : i \in DOMAIN m.undo_stack}
        \cup {m.redo_stack[i].raw : i \in DOMAIN m.redo_stack}
        \cup {m.redo_stack[i].epochs : i \in DOMAIN m.redo_stack}) \ {0}

\* a new object is one that nothing refers to
NewObject(taken) ==
    CHOOSE o \in Objects \ taken : \A u \in Objects \ taken : o <= u

\* the references the session holds, in a fixed order
References(m) ==
    LET Pair(stack) == [i \in 1..(2 * Len(stack)) |->
                          IF i % 2 = 1 THEN stack[(i + 1) \div 2].raw
                          ELSE stack[i \div 2].epochs]
    IN  <<m.raw, m.epochs>> \o Pair(m.undo_stack) \o Pair(m.redo_stack)

\* Which number stands for which object does not matter: the objects are
\* renumbered in the order of their first reference, and an object nobody
\* refers to any longer is gone.
Collect(m) ==
    LET refs == References(m)
        First(o) == CHOOSE i \in DOMAIN refs :
                        refs[i] = o /\ \A k \in 1..(i - 1) : refs[k] # o
        Number(o) == IF o = 0 THEN 0
                     ELSE Cardinality({refs[k] : k \in 1..First(o)} \ {0})
        Renumbered(stack) ==
            [i \in DOMAIN stack |->
                [stack[i] EXCEPT !.raw = Number(@), !.epochs = Number(@)]]
    IN  [raw |-> Number(m.raw), epochs |-> Number(m.epochs),
         undo_stack |-> Renumbered(m.undo_stack),
         redo_stack |-> Renumbered(m.redo_stack),
         data |-> [n \in Objects |->
                     IF \E o \in Referenced(m) : Number(o) = n
                     THEN m.data[CHOOSE o \in Referenced(m) : Number(o) = n]
                     ELSE 0]]

\* variant: the "copy" is the object itself
copy_same_object(o, taken) == o

\* o.copy(): the object that is the copy
copy(o, taken) == NewObject(taken)

\* (self.raw.copy(), self.epochs.copy() if self.epochs is not None else None)
\* pushed on a stack: the stack, and data with the two copies in it
Pushed(m, stack) ==
    LET raw_copy   == copy(m.raw, Referenced(m))
        epochs_ref == IF m.epochs # 0
                      THEN copy(m.epochs, Referenced(m) \cup {raw_copy})
                      ELSE 0
        copied     == [o \in Objects |->
                         IF o = raw_copy THEN m.data[m.raw]
                         ELSE IF o = epochs_ref THEN m.data[m.epochs]
                         ELSE m.data[o]]
    IN  [stack |-> Append(stack, Entry(raw_copy, epochs_ref, copied)),
         data  |-> copied]

\* EEGSession.save_state on the objects
save_state(m) ==
    IF m.raw # 0
    THEN LET p == Pushed(m, m.undo_stack)
         IN  [m EXCEPT !.undo_stack = IF Len(p.stack) > MAX_UNDO_STACK
                                      THEN Tail(p.stack) ELSE p.stack,
                       !.redo_stack = <<>>,
                       !.data = p.data]
    ELSE m

\* an in-place change of object o
Edited(m, o) == [m EXCEPT !.data[o] = @ + 1]

\* load_raw: session.raw = raw, a new object
object_load ==
    /\ mem.raw = 0
    /\ mem' = Collect([mem EXCEPT !.raw = NewObject(Referenced(mem))])

\* apply_filter, apply_resample, apply_rereference, apply_ica, crop_data:
\* save_state, then the change of session.raw in place
object_edit ==
    /\ mem.raw # 0
    /\ Len(mem.undo_stack) < MaxSnapshots
    /\ mem.data[mem.raw] < MaxEdits
    /\ mem' = Collect(Edited(save_state(mem), mem.raw))

\* create_epochs: save_state, then session.epochs = epochs, a new object
object_epochs ==
    /\ mem.raw # 0
    /\ Len(mem.undo_stack) < MaxSnapshots
    /\ LET saved == save_state(mem)
       IN  mem' = Collect([saved EXCEPT !.epochs = NewObject(Referenced(saved))])

\* set_montage: raw.set_montage and session.epochs.set_montage in place, with no
\* save_state
object_montage ==
    /\ mem.raw # 0
    /\ mem.data[mem.raw] < MaxEdits
    /\ mem.epochs # 0 => mem.data[mem.epochs] < MaxEdits
    /\ mem' = Collect(IF mem.epochs # 0
                      THEN Edited(Edited(mem, mem.raw), mem.epochs)
                      ELSE Edited(mem, mem.raw))

\* EEGSession.undo on the objects
object_undo ==
    /\ mem.undo_stack # <<>>
    /\ LET p == Pushed(mem, mem.redo_stack)
           stack_item == Last(mem.undo_stack)
       IN  mem' = Collect([mem EXCEPT
                              !.redo_stack = IF mem.raw # 0 THEN p.stack ELSE @,
                              !.data = IF mem.raw # 0 THEN p.data ELSE @,
                              !.undo_stack = Front(@),
                              !.epochs = stack_item.epochs,
                              !.raw = stack_item.raw])

\* EEGSession.redo on the objects
object_redo ==
    /\ mem.redo_stack # <<>>
    /\ LET p == Pushed(mem, mem.undo_stack)
           redo_item == Last(mem.redo_stack)
       IN  mem' = Collect([mem EXCEPT
                              !.undo_stack = IF mem.raw # 0 THEN p.stack ELSE @,
                              !.data = IF mem.raw # 0 THEN p.data ELSE @,
                              !.redo_stack = Front(@),
                              !.epochs = redo_item.epochs,
                              !.raw = redo_item.raw])


Init ==
    /\ InitSession /\ InitBatch /\ InitTfr /\ InitNotify /\ InitRegistry
    /\ InitHandler /\ InitObjects

\* the handlers of one session on the event loop, and the two readers
HandlerNext ==
    \/ LoopIdle /\ load_raw /\ UNCHANGED <<handler, notHandler>>
    \/ LoopIdle /\ apply_filter /\ UNCHANGED <<handler, notHandler>>
    \/ LoopIdle /\ create_epochs /\ UNCHANGED <<handler, notHandler>>
    \/ LoopIdle /\ redo /\ UNCHANGED <<handler, notHandler>>
    \/ undo_begin /\ UNCHANGED notHandler
    \/ undo_finish /\ UNCHANGED notHandler
    \/ handler_read /\ UNCHANGED notHandler
    \/ job_read /\ UNCHANGED notHandler

SessionNext ==
    \/ load_raw /\ UNCHANGED notSession
    \/ apply_filter /\ UNCHANGED notSession
    \/ apply_resample /\ UNCHANGED notSession
    \/ apply_rereference /\ UNCHANGED notSession
    \/ apply_ica /\ UNCHANGED notSession
    \/ crop_data /\ UNCHANGED notSession
    \/ create_epochs /\ UNCHANGED notSession
    \/ set_bad_channel /\ UNCHANGED notSession
    \/ set_montage /\ UNCHANGED notSession
    \/ undo /\ UNCHANGED notSession
    \/ redo /\ UNCHANGED notSession

BatchNext ==
    \/ create_job /\ UNCHANGED notBatch
    \/ start_job /\ UNCHANGED notBatch
    \/ subscribe_progress /\ UNCHANGED notBatch
    \/ unsubscribe_progress /\ UNCHANGED notBatch
    \/ task_cancelled /\ UNCHANGED notBatch
    \/ process_job_start /\ UNCHANGED notBatch
    \/ process_file_begin /\ UNCHANGED notBatch
    \/ process_load /\ UNCHANGED notBatchSessions
    \/ process_step /\ UNCHANGED notBatch
    \/ process_export /\ UNCHANGED notBatchSessions
    \/ process_file_end /\ UNCHANGED notBatch
    \/ process_job_finish /\ UNCHANGED notBatch
    \/ cancel_job /\ UNCHANGED notBatch
    \/ cancel_job_resume /\ UNCHANGED notBatch

TfrNext ==
    \/ start_tfr_job /\ UNCHANGED notTfr
    \/ run_morlet_job /\ UNCHANGED notTfr
    \/ update_assign /\ UNCHANGED notTfr
    \/ validate /\ UNCHANGED notTfr
    \/ compute_batch /\ UNCHANGED notTfr
    \/ averaged /\ UNCHANGED notTfr
    \/ render_channel /\ UNCHANGED notTfr
    \/ complete_image /\ UNCHANGED notTfr
    \/ tfr_cancel_job /\ UNCHANGED notTfr
    \/ tfr_cancel_assign /\ UNCHANGED notTfr

NotifyNext ==
    \/ notify_begin /\ UNCHANGED notNotify
    \/ callback_call /\ UNCHANGED notNotify
    \/ notify_return /\ UNCHANGED notNotify

RegistryNext ==
    \/ tick /\ UNCHANGED notRegistry
    \/ create_session /\ UNCHANGED notRegistry
    \/ get_session /\ UNCHANGED notRegistry
    \/ remove_session /\ UNCHANGED notRegistry
    \/ cleanup_expired /\ UNCHANGED notRegistry

StreamNext ==
    \/ create_job /\ UNCHANGED notBatch
    \/ start_job /\ UNCHANGED notBatch
    \/ task_cancelled /\ UNCHANGED notBatch
    \/ process_job_start /\ UNCHANGED notBatch
    \/ process_file_begin /\ UNCHANGED notBatch
    \/ process_load /\ UNCHANGED notBatchSessions
    \/ process_step /\ UNCHANGED notBatch
    \/ process_export /\ UNCHANGED notBatchSessions
    \/ process_file_end /\ UNCHANGED notBatch
    \/ process_job_finish /\ UNCHANGED notBatch
    \/ cancel_job /\ UNCHANGED notBatch
    \/ cancel_job_resume /\ UNCHANGED notBatch
    \/ stream_open /\ UNCHANGED notBatch
    \/ stream_first /\ UNCHANGED notBatch
    \/ queue_put /\ UNCHANGED notBatch
    \/ stream_get /\ UNCHANGED notBatch
    \/ stream_wait /\ UNCHANGED notBatch
    \/ stream_timeout /\ UNCHANGED notBatch

SessionSpec == Init /\ [][SessionNext]_vars

HandlerSpec == Init /\ [][HandlerNext]_vars

\* the operations of one session, on its objects
ObjectNext ==
    \/ object_load /\ UNCHANGED notObjects
    \/ object_edit /\ UNCHANGED notObjects
    \/ object_epochs /\ UNCHANGED notObjects
    \/ object_montage /\ UNCHANGED notObjects
    \/ object_undo /\ UNCHANGED notObjects
    \/ object_redo /\ UNCHANGED notObjects

ObjectSpec == Init /\ [][ObjectNext]_vars

BatchSpec == Init /\ [][BatchNext]_vars

TfrSpec == Init /\ [][TfrNext]_vars

\* the threadpool thread that runs run_morlet_job and the event loop thread
\* inside cancel_job both keep running
TfrFairSpec ==
    /\ Init /\ [][TfrNext]_vars
    /\ WF_vars((run_morlet_job \/ update_assign \/ validate \/ compute_batch
                  \/ averaged \/ render_channel \/ complete_image)
                /\ UNCHANGED notTfr)
    /\ WF_vars(tfr_cancel_assign /\ UNCHANGED notTfr)

\* the batch service with one progress stream on the job
StreamSpec == Init /\ [][StreamNext]_vars

\* the batch service and one status request that may have to wait for
\* self._lock: the first get_job_status of a progress stream
LockNext ==
    \/ create_job /\ UNCHANGED notBatch
    \/ start_job /\ UNCHANGED notBatch
    \/ task_cancelled /\ UNCHANGED notBatch
    \/ process_job_start /\ UNCHANGED notBatch
    \/ process_file_begin /\ UNCHANGED notBatch
    \/ process_load /\ UNCHANGED notBatchSessions
    \/ process_step /\ UNCHANGED notBatch
    \/ process_export /\ UNCHANGED notBatchSessions
    \/ process_file_end /\ UNCHANGED notBatch
    \/ process_job_finish /\ UNCHANGED notBatch
    \/ cancel_job /\ UNCHANGED notBatch
    \/ cancel_job_resume /\ UNCHANGED notBatch
    \/ stream_open /\ UNCHANGED notBatch
    \/ stream_first /\ UNCHANGED notBatch

\* the event loop runs every callback that is ready, first in first out: a task
\* that can take a step takes it, cancel_job goes on when the task it awaits
\* is done, and the coroutine waiting for self._lock gets it when it is free
LockSpec ==
    /\ Init /\ [][LockNext]_vars
    /\ WF_vars((task_cancelled \/ process_job_start \/ process_file_begin
                  \/ process_step \/ process_file_end \/ process_job_finish)
                /\ UNCHANGED notBatch)
    /\ WF_vars((process_load \/ process_export) /\ UNCHANGED notBatchSessions)
    /\ WF_vars(cancel_job_resume /\ UNCHANGED notBatch)
    /\ WF_vars(stream_first /\ UNCHANGED notBatch)

NotifySpec == Init /\ [][NotifyNext]_vars

\* time passes whatever the callers do; the calls themselves are up to the
\* callers, cleanup_expired included
RegistrySpec ==
    Init /\ [][RegistryNext]_vars /\ WF_vars(tick /\ UNCHANGED notRegistry)


(***************************************************************************)
(* Properties of the snapshot store (checked under SessionSpec)            *)
(***************************************************************************)

\* C1: after a run of N <= 10 successful snapshotting operations, N undos all
\* return true and leave raw, epochs and the processing history equal to what
\* they were before the first of the N operations.
C1_UndoRestoresOriginal ==
    (trail.phase = "undo" /\ trail.undos <= MAX_UNDO_STACK)
        => /\ trail.ok
           /\ Observed = trail.states[RunLength + 1 - trail.undos]

\* ten operations, then ten undos, all true, back at the state before the first
C1_Witness ==
    /\ trail.phase = "undo"
    /\ RunLength = MAX_UNDO_STACK
    /\ trail.undos = MAX_UNDO_STACK
    /\ trail.ok
    /\ Observed = trail.states[1]
    /\ Observed # trail.states[RunLength + 1]

\* C2: after a run of N <= 10 successful snapshotting operations, N undos
\* followed by N redos all return true and leave raw, epochs and the processing
\* history (same records, same order) equal to the state the N operations
\* reached.
C2_RedoRestoresFinal ==
    (trail.phase = "redo" /\ trail.redos = trail.undos
                          /\ trail.undos <= MAX_UNDO_STACK)
        => /\ trail.ok
           /\ Observed = trail.states[RunLength + 1]

\* ten operations, ten undos, ten redos, all true, back at the state after the
\* tenth operation, with a history of two different operation names
C2_Witness ==
    /\ trail.phase = "redo"
    /\ RunLength = MAX_UNDO_STACK
    /\ trail.redos = MAX_UNDO_STACK
    /\ trail.undos = MAX_UNDO_STACK
    /\ trail.ok
    /\ Observed = trail.states[RunLength + 1]
    /\ processing_history[2].operation = "resample"
    /\ processing_history[3].operation = "filter"

MutatingOperations ==
    {"filter", "resample", "rereference", "ica", "crop", "epochs",
     "set_montage", "set_bad_channel"}

\* C8: right after any successful mutating operation of the session API
\* (filter, resample, re-reference, ICA, crop, epoch creation, montage
\* assignment, bad-channel marking) the redo stack is empty, so redo returns
\* false.
C8_EveryOperationClearsRedo ==
    (last.call \in MutatingOperations /\ last.outcome = "ok")
        => redo_stack = <<>>

\* C9: the undo stack never holds more than MAX_UNDO_STACK snapshots, whatever
\* the interleaving of save_state, undo and redo.
C9_UndoStackBounded == Len(undo_stack) <= MAX_UNDO_STACK

\* a redo has just pushed onto the undo stack and filled it to the capacity
C9_Witness ==
    /\ last = Call("redo", "true")
    /\ Len(undo_stack) = MAX_UNDO_STACK

\* a step in which an operation called save_state
SaveStateCalled ==
    /\ last'.call \in MutatingOperations \ {"set_montage", "set_bad_channel"}
    /\ <<last, undo_stack, redo_stack, processing_history>>
         # <<last', undo_stack', redo_stack', processing_history'>>

\* C10: save_state on a full undo stack evicts exactly the oldest snapshot: the
\* nine newest previous snapshots stay in their order, the new one is on top.
C10_EvictsOldest ==
    [][(SaveStateCalled /\ Len(undo_stack) = MAX_UNDO_STACK)
         => undo_stack' = Append(Tail(undo_stack),
                                 <<raw, Record(last'.call), epochs>>)]_vars

\* eleven operations in a row: the eleventh push found the stack full, and the
\* oldest snapshot left is the one taken before the second operation
C10_Witness ==
    /\ trail.phase = "ops"
    /\ RunLength = MAX_UNDO_STACK + 1
    /\ Len(undo_stack) = MAX_UNDO_STACK
    /\ undo_stack[1][1] = trail.states[2][1]
    /\ undo_stack[MAX_UNDO_STACK][1] = trail.states[RunLength][1]

\* C11: every successful undo and redo takes raw and epochs together from the
\* one snapshot it pops; an undo into a snapshot taken without epochs leaves the
\* session without epochs.
C11_RestoredTogether ==
    [][/\ last' = Call("undo", "true")
            => /\ undo_stack # <<>>
               /\ <<raw', epochs'>> = <<Last(undo_stack)[1], Last(undo_stack)[3]>>
               /\ ~Last(undo_stack)[3].present => epochs' = NoEpochs
       /\ last' = Call("redo", "true")
            => /\ redo_stack # <<>>
               /\ <<raw', epochs'>> = <<Last(redo_stack)[1], Last(redo_stack)[3]>>
      ]_vars

\* the epoch-creation step has just been undone: the session has no epochs and
\* the snapshot kept for redo has them
C11_Witness ==
    /\ last = Call("undo", "true")
    /\ epochs = NoEpochs
    /\ redo_stack # <<>>
    /\ Last(redo_stack)[3].present
    /\ Last(redo_stack)[2] = Record("epochs")

\* C12: whenever the session has epochs they were built from the session's
\* current raw.
C12_EpochsFromCurrentRaw ==
    epochs.present => epochs.src = raw.data

\* the operations whose effect on the signal Transform records in raw.data
SignalOperations == {"filter", "resample", "rereference", "ica", "crop"}

\* the signal operations the processing history lists, in order
HistoryEffects ==
    LET kept == SelectSeq(processing_history,
                          LAMBDA h : h.operation \in SignalOperations)
    IN  [x \in DOMAIN kept |-> kept[x].operation]

\* the processing history has a record of the operation
Listed(operation) ==
    \E x \in DOMAIN processing_history :
        processing_history[x].operation = operation

\* C13: undo removes the history record of the very operation whose pre-state
\* it restores, so the history lists exactly the operations whose effect is
\* present in the current raw and epochs.
C13_HistoryMatchesEffects ==
    raw.loaded => /\ Listed("load")
                  /\ HistoryEffects = raw.data
                  /\ Listed("epochs") <=> epochs.present
                  /\ Listed("set_montage") <=> raw.montage # "none"

\* C14: every successful mutating operation has called save_state before it
\* mutated: the top of the undo stack is the snapshot of the state just before
\* the operation, recorded under the operation's name.
C14_SnapshotBeforeMutation ==
    [][(/\ last'.call \in MutatingOperations
        /\ last'.outcome = "ok"
        /\ processing_history' # processing_history)
          => /\ undo_stack' # <<>>
             /\ Last(undo_stack') = <<raw, Record(last'.call), epochs>>]_vars


(***************************************************************************)
(* Properties of the batch orchestrator (checked under BatchSpec)          *)
(***************************************************************************)

\* C3: once the job's status is completed, failed or cancelled it never
\* changes again, and running is only ever entered from idle.
C3_TerminalIsFinal ==
    [][/\ job.status \in Terminal => job'.status = job.status
       /\ (job'.status = "running" /\ job.status # "running")
            => job.status = "idle"]_vars

\* C4: over any sequence of start_job calls at most one background unit ever
\* processes the job's files.
C4_AtMostOneExecution == Cardinality(ran) <= 1

\* C5: after cancel_job has returned true the job's status is cancelled, every
\* file result is what it was at the cancellation (finished files keep their
\* result, the others stay pending) and no further progress event is delivered
\* to any subscriber.
C5_NothingAfterCancel ==
    at_cancel.returned
        => /\ job.status = "cancelled"
           /\ job.results = at_cancel.results
           /\ \A s \in Subscribers : ~events[s].late

\* C6: a job that is never cancelled ends completed with every file result
\* success or failed and completed_files + failed_files = total_files.
C6_CompletedCountsEveryFile ==
    (~job.cancel_event /\ job.status = "completed")
        => /\ \A i \in DOMAIN job.results : job.results[i] \in {"success", "failed"}
           /\ job.completed_files + job.failed_files = job.total_files

\* C7: the progress values delivered to a subscriber never decrease over the
\* job's whole life, and once the job has ended the last snapshot delivered to
\* a subscriber carries the job's terminal status.
C7_ProgressMonotone ==
    [][\A s \in Subscribers :
         /\ events[s].any
               => events'[s].last.progress >= events[s].last.progress
         /\ (/\ pc'.task = 0
             /\ job'.status \in Terminal
             /\ s \in Range(job'.progress_callbacks)
             /\ events'[s].any)
               => events'[s].last.status = job'.status]_vars


(***************************************************************************)
(* Properties of the analysis jobs (checked under TfrSpec)                 *)
(***************************************************************************)

\* the status changes the job's life allows: pending -> running -> completed or
\* error, and pending -> error for a job cancelled before it ran
TfrTransitions ==
    {<<"pending", "running">>, <<"running", "completed">>,
     <<"running", "error">>, <<"pending", "error">>}

\* C15: an analysis job's status moves pending -> running -> completed or error
\* and never changes once it is completed or error; a job that cancel_job has
\* put into error with the cancellation message is never afterwards set to
\* running or completed and never gets a result attached.
C15_TfrTerminalIsFinal ==
    [][/\ tfr'.status # tfr.status
            => <<tfr.status, tfr'.status>> \in TfrTransitions
       /\ (tfr.status = "error" /\ tfr.error = CancelMessage)
            => /\ tfr'.status = "error"
               /\ tfr'.result = "None"]_vars

\* C16: in every reachable state of an analysis job a result is attached iff
\* the status is completed, an error message is attached iff the status is
\* error, and progress is 1.0 whenever the status is completed or error.  The
\* states are those get_job can read: no cancel_job call is in the middle of its
\* assignments on the event loop.
C16_TfrFieldsAgree ==
    (tfr.exists /\ canceller.at = "idle")
        => /\ tfr.result # "None" <=> tfr.status = "completed"
           /\ tfr.error # "None" <=> tfr.status = "error"
           /\ tfr.status \in {"completed", "error"} => tfr.progress = 100

\* C18: for batch jobs and analysis jobs alike, cancelling a job that is
\* unknown or already terminal returns false, changes no field of the job and
\* publishes no event, and for a given job at most one cancel call returns
\* true.
C18_CancelIdempotent ==
    [][/\ (canceller'.calls # canceller.calls /\ ~tfr_cancellable)
            => /\ canceller'.ret = "false"
               /\ tfr' = tfr
       /\ canceller'.trues <= 1
       /\ (cancel_ret' # cancel_ret /\ LoopFree /\ lock = "free" /\ ~cancellable)
            => /\ cancel_ret' = "false"
               /\ job' = job
               /\ events' = events
       /\ at_cancel.returned
            => /\ lock = "free"
               /\ LoopFree => ~cancellable]_vars


(***************************************************************************)
(* Properties of _notify_progress (checked under NotifySpec)               *)
(***************************************************************************)

\* C19: notify invokes every registered callback, in order, with the job's
\* current status; a callback that raises does not stop the delivery to the
\* callbacks after it and no exception leaves notify, so the batch run that
\* called it goes on and the status is what it was.
C19_NotifyReachesEveryCallback ==
    /\ notifier.at # "raised"
    /\ notifier.at = "returned"
         => notifier.received
              = [x \in 1..Len(notifier.callbacks) |-> <<x, notifier.status>>]

\* notify has returned, its first callback raised and the one after it was
\* invoked with the status
C19_Witness ==
    /\ notifier.at = "returned"
    /\ Len(notifier.callbacks) >= 2
    /\ notifier.callbacks[1]
    /\ ~notifier.callbacks[2]
    /\ notifier.received[2] = <<2, notifier.status>>


(***************************************************************************)
(* Properties of the session registry (checked under RegistrySpec)         *)
(***************************************************************************)

\* C20: a session whose last access is more than SESSION_TIMEOUT old is
\* eventually removed from the registry without anybody asking for the cleanup,
\* and a sweep never removes a session looked up within the timeout.
C20_ExpiredEventuallyRemoved ==
    /\ \A sid \in SessionIds :
         (sessions[sid].live /\ Expired(sessions[sid])) ~> ~sessions[sid].live
    /\ [][(registry_call'.op = "cleanup_expired" /\ now' = now)
            => \A sid \in SessionIds :
                 (sessions[sid].live /\ ~Expired(sessions[sid]))
                    => sessions'[sid] = sessions[sid]]_vars


(***************************************************************************)
(* Properties of the progress stream (checked under StreamSpec)            *)
(***************************************************************************)

\* C17: a progress stream emits the job's current status, then each update,
\* and closes after a terminal status has been emitted exactly once, also when
\* the job is already terminal at the moment the stream is opened.
C17_StreamClosesOnOneTerminal ==
    sse.at = "closed" => sse.terminals = 1


\* C21: create_session returns an identity that is not registered at the time
\* of the call and registers a new session under it; it never replaces a
\* session that is already live.
C21_CreateRegistersFresh ==
    [][(registry_call'.op = "create_session" /\ now' = now)
        => /\ ~sessions[registry_call'.sid].live
           /\ sessions' = [sessions EXCEPT ![registry_call'.sid] =
                                [live |-> TRUE, age |-> 0]]]_vars


\* C22: undo on an empty undo stack returns false and changes nothing (raw,
\* epochs, history and both stacks stay as they are); redo on an empty redo
\* stack likewise returns false and changes nothing.
C22_RefusedUndoRedoChangeNothing ==
    [][/\ (undo_stack = <<>> /\ last'.call = "undo")
            => /\ last'.outcome = "false"
               /\ UNCHANGED <<raw, epochs, processing_history, undo_stack,
                              redo_stack>>
       /\ (redo_stack = <<>> /\ last'.call = "redo")
            => /\ last'.outcome = "false"
               /\ UNCHANGED <<raw, epochs, processing_history, undo_stack,
                              redo_stack>>
       /\ (last'.call \in {"undo", "redo"} /\ last'.outcome = "false")
            => UNCHANGED <<raw, epochs, processing_history, undo_stack,
                           redo_stack>>]_vars

\* undo was refused on a loaded session that still has something to redo
C22_Witness ==
    /\ raw.loaded
    /\ redo_stack # <<>>
    /\ last = Call("undo", "false")


(***************************************************************************)
(* Properties of the subscriber list (checked under BatchSpec)             *)
(***************************************************************************)

Rejected(request) ==
    \/ ~request.epochs
    \/ request.channels # "present"
    \/ request.fmax <= request.fmin

\* a request that is sound except, possibly, for its cycle count
SoundButCycles(request) ==
    /\ ~Rejected(request)
    /\ request.event_found
    /\ request.epoch_len > 0

\* C24: a run whose request has fmax <= fmin, no channels, channels absent from
\* the epochs, or a session without epochs ends the job in error with a message
\* before any batch is computed; an oversized cycle count is clamped to the
\* allowed maximum and the run goes on to the batches instead of failing.
C24_RejectsOrClamps ==
    /\ [](/\ (Rejected(worker.request) /\ worker.at \notin {"none", "queued"})
              => worker.b = 0 /\ worker.at \in {"update", "validate", "done"}
          /\ (Rejected(worker.request) /\ worker.at = "done"
                /\ canceller.at = "idle")
              => tfr.status = "error" /\ tfr.error # "None")
    /\ [][/\ (worker.at = "validate" /\ worker' # worker
                /\ Rejected(worker.request))
              => worker' = Raised(worker, "ValueError")
          /\ (worker.at = "validate" /\ worker' # worker
                /\ SoundButCycles(worker.request))
              => /\ worker'.then = "batch"
                 /\ worker'.n_cycles <= worker.request.n_cycles
                 /\ worker'.n_cycles = 10 \/ worker'.n_cycles = worker.request.n_cycles
         ]_vars

\* a request with fmax <= fmin has ended in error, and it was not a cancel
C24_Witness ==
    /\ worker.request.epochs /\ worker.request.channels = "present"
    /\ worker.request.event_found
    /\ worker.request.fmax <= worker.request.fmin
    /\ worker.at = "done"
    /\ tfr.status = "error" /\ tfr.error = "ValueError"
    /\ ~tfr.cancelled


\* C25: every analysis job whose run is invoked eventually reaches completed or
\* error, and a run with valid parameters that is never cancelled and in which
\* no library call fails ends completed, with a result in the render mode that
\* was requested.
C25_RunEndsAndValidRunCompletes ==
    /\ (worker.at = "queued") ~> (tfr.status \in {"completed", "error"})
    /\ [](( /\ worker.at = "done"
            /\ validation_error(worker.request) = "None"
            /\ canceller.calls = 0
            /\ tfr.error # "Exception")
          => /\ tfr.status = "completed"
             /\ tfr.result = worker.mode)


(***************************************************************************)
(* Properties of _process_job (checked under BatchSpec)                    *)
(***************************************************************************)

\* C26: the background unit marks the job completed, with progress 100, only
\* after it has processed every file of the list (no result is left pending);
\* when it leaves the file loop early because it saw the cancellation flag, at
\* a file boundary or at a step boundary, it does not mark the job completed.
C26_CompletedOnlyAfterEveryFile ==
    /\ [](job.status = "completed"
            => /\ \A i \in DOMAIN job.results : job.results[i] # "pending"
               /\ job.progress = Full)
    /\ [][(pc.at = "finish" /\ pc'.task = 0 /\ pc.i <= job.total_files)
            => job'.status # "completed"]_vars

\* a run saw the cancellation flag at the head of a file and ended with that
\* file's result pending
C26_Witness ==
    /\ pc.task = 0
    /\ ran # {}
    /\ job.status = "cancelled"
    /\ \E t \in ran : tasks[t] = "done"
    /\ \E i \in DOMAIN job.results : job.results[i] = "pending"


\* C27: a running batch job yields control between files and between pipeline
\* steps, so that a cancel request issued while the job is running is served
\* before the job's next unit of work starts.
C27_YieldsBetweenUnits ==
    (/\ pc.task # 0
     /\ \/ pc.at = "file" /\ pc.i > 1 /\ pc.i <= job.total_files
        \/ pc.at = "step" /\ pc.k <= Len(job.steps))
        => ENABLED cancel_job


\* C28: the progress of an analysis job as a poller reads it never decreases
\* over the job's life, also when cancel_job is called while a batch is in
\* flight, and it is 1.0 only together with a terminal status.
C28_TfrProgressMonotone ==
    /\ [][tfr'.progress >= tfr.progress]_vars
    /\ []((canceller.at = "idle" /\ tfr.progress = 100)
            => tfr.status \in {"completed", "error"})


\* C29: every session the batch orchestrator obtains by loading a file is
\* removed from the registry before the orchestrator moves on from that file,
\* whether the file ends in success, in failure or the run is cancelled, so a
\* job in a terminal state leaves none of its sessions registered.
C29_BatchSessionsReleased ==
    (pc.at \in {"file", "finish", "none"})
        => \A sid \in SessionIds : ~sessions[sid].live


(***************************************************************************)
(* Failed operations (checked under SessionSpec)                           *)
(***************************************************************************)

\* C30: after an interactive operation has failed (its processing call raised
\* after save_state), one explicit undo leaves the session in its pre-operation
\* state: raw, epochs and processing history are what they were just before
\* the failed operation, which itself changed none of them.
C30_UndoAfterFailureRestores ==
    [][(last.outcome = "raised" /\ last'.call = "undo")
        => /\ last'.outcome = "true"
           /\ raw' = raw
           /\ epochs' = epochs
           /\ processing_history' = processing_history]_vars


\* C31: when a processing call raises after save_state has run, the snapshot
\* just pushed stays on the undo stack, the redo stack stays cleared, and no
\* history record is appended for the failed operation.
C31_FailedOperationKeepsSnapshot ==
    [][last'.outcome = "raised"
        => /\ undo_stack' # <<>>
           /\ Last(undo_stack') = <<raw, Record(last'.call), epochs>>
           /\ Front(undo_stack') = IF Len(undo_stack) < MAX_UNDO_STACK
                                   THEN undo_stack
                                   ELSE Tail(undo_stack)
           /\ redo_stack' = <<>>
           /\ processing_history' = processing_history]_vars

\* epoch creation found no matching event: the failed call's snapshot is on the
\* undo stack, the redo stack is empty and the history has no record of it
C31_Witness ==
    /\ last = Call("epochs", "raised")
    /\ undo_stack # <<>>
    /\ Last(undo_stack)[2] = Record("epochs")
    /\ redo_stack = <<>>
    /\ \A i \in DOMAIN processing_history :
            processing_history[i] # Record("epochs")


(***************************************************************************)
(* Readers of a session (checked under HandlerSpec)                        *)
(***************************************************************************)

C33_NoPublishedUpdateLost ==
    ~sse.lost


\* C34: once the cancellation flag of an analysis job is set, the executing
\* unit starts no further batch (worker.b counts the batches started): at most
\* the batch in flight runs to completion, and a job cancelled before its run
\* begins computes no batch at all.
C34_NoBatchAfterCancel ==
    [][tfr.cancelled => worker'.b = worker.b]_vars

\* a run of two batches was cancelled during its first batch and ended without
\* starting the second
C34_Witness ==
    /\ tfr.cancelled
    /\ worker.at = "done"
    /\ worker.n = 2
    /\ worker.b = 1
    /\ tfr.error = CancelMessage


\* the number of file results with the given status
Count(results, status) ==
    Cardinality({i \in DOMAIN results : results[i] = status})

\* C35: a batch job processes its files strictly in list order and, within a
\* file, its enabled steps in declared order with disabled steps skipped: the
\* files whose result is no longer pending always form a prefix of the list;
\* the task records a result only for the file it is at, moves from a file to
\* the next one only, publishes as current step only the enabled step it has
\* reached, never goes back in the step list, and publishes a progress event
\* that carries the result after every file it has recorded.
C35_FilesAndStepsInOrder ==
    /\ [](\A i, k \in DOMAIN job.results :
              (i < k /\ job.results[k] # "pending")
                  => job.results[i] # "pending")
    /\ [][pc.task # 0 =>
            /\ \A i \in DOMAIN job.results :
                  job'.results[i] # job.results[i]
                      => /\ i = pc.i
                         /\ pc'.at = "file_end"
                         /\ job'.results[i] # "pending"
            /\ (pc'.task = pc.task /\ pc'.i # pc.i)
                  => /\ pc'.i = pc.i + 1
                     /\ pc.at = "file_end"
            /\ (pc.at = "step" /\ job'.current_step # job.current_step)
                  => /\ job.steps[pc.k].enabled
                     /\ job'.current_step = job.steps[pc.k].type
            /\ (pc.at = "step" /\ pc'.at = "step")
                  => /\ pc'.k = pc.k + 1
                     /\ (~job.steps[pc.k].enabled
                            => job'.current_step = job.current_step)
            /\ pc.at = "file_end"
                  => /\ pc'.at = "file"
                     /\ \A s \in Subscribers :
                          s \in Range(job.progress_callbacks)
                              => /\ events'[s].last = Snapshot(job')
                                 /\ events'[s].last.results[pc.i]
                                        # "pending"]_vars

\* the second of two files is at its second step, the first step being
\* disabled, and the subscriber has been told of the first file's result
C35_Witness ==
    /\ pc.at = "step" /\ pc.i = 2 /\ pc.k = 2
    /\ ~job.steps[1].enabled
    /\ job.results = <<"success", "pending">>
    /\ \E s \in Subscribers :
          /\ s \in Range(job.progress_callbacks)
          /\ events[s].last.results = <<"success", "pending">>

\* C36: in every reachable state of a batch job completed_files is the number
\* of results with status success, failed_files the number with status failed,
\* completed_files + failed_files is at most total_files, and progress lies
\* between 0 and 100 per cent.
C36_CountersMatchResults ==
    job.exists =>
        /\ job.completed_files = Count(job.results, "success")
        /\ job.failed_files = Count(job.results, "failed")
        /\ job.completed_files + job.failed_files <= job.total_files
        /\ 0 <= job.progress /\ job.progress <= Full

\* both stacks of the object model, as one sequence of entries
Snapshots == mem.undo_stack \o mem.redo_stack

\* C37: snapshots are independent copies: no entry of the undo or redo stack
\* is the same object as the session's current raw or epochs, and every entry
\* still holds what it held when it was made, whatever was changed in place
\* since.
C37_SnapshotsAreCopies ==
    \A i \in DOMAIN Snapshots :
        LET e == Snapshots[i]
        IN  /\ e.raw \notin {mem.raw, mem.epochs}
            /\ e.epochs # 0 => e.epochs \notin {mem.raw, mem.epochs}
            /\ mem.data[e.raw] = e.raw_data
            /\ e.epochs # 0 => mem.data[e.epochs] = e.epochs_data

\* an undo has put on the redo stack a copy of epochs that had been changed in
\* place, the restored raw had been changed in place before it was saved, and
\* the undo stack still holds the raw as it was loaded
C37_Witness ==
    /\ mem.undo_stack # <<>> /\ mem.redo_stack # <<>>
    /\ mem.undo_stack[1].raw_data = 0
    /\ Last(mem.redo_stack).epochs # 0
    /\ Last(mem.redo_stack).epochs_data >= 1
    /\ mem.data[mem.raw] >= 1
    /\ mem.data[mem.raw] < Last(mem.redo_stack).raw_data

\* C38: cancel_job always returns: a cancel_job that holds self._lock while it
\* awaits the job's task gets to its end and releases the lock, whatever the
\* task and the progress notifications do meanwhile, and a status request that
\* waits for the lock (the first get_job_status of a progress stream) proceeds
\* once the cancellation has finished.
C38_CancelReturns ==
    /\ (lock = "cancel_job") ~> (lock = "free" /\ cancel_ret = "true")
    /\ (sse.at = "subscribed") ~> (sse.at = "loop" /\ lock = "free")

\* cancel_job holds the lock and awaits the task it cancelled, the stream's
\* status request waits for the lock, and an earlier task of the job has
\* started and published its first progress event to the stream's callback
C38_Witness ==
    /\ lock = "cancel_job"
    /\ sse.at = "subscribed"
    /\ pc.at = "file" /\ pc.task # 0
    /\ sse.puts # <<>>
    /\ tasks[job.task] = "cancel_requested"

\* C39: only the executing background unit writes a job's status, progress,
\* error and result: a step of a cancel request, which comes from outside that
\* unit, changes nothing of the analysis job but its cancellation flag.
C39_CancelSetsOnlyTheFlag ==
    [][canceller' # canceller
          => [tfr' EXCEPT !.cancelled = tfr.cancelled] = tfr]_vars

=============================================================================
